---- MODULE Spec2Model ----
(***************************************************************************)
(* Banking service (src/banking-service): the bank_accounts table and the  *)
(* CRUD operations of crud.py, each request running in its own database    *)
(* session.  Money is counted in cents: balances are Numeric(10, 2) and     *)
(* request amounts are taken to carry two fractional digits.               *)
(*                                                                         *)
(* Every `await` of crud.py is a point where another request may run, so   *)
(* debit_account and credit_account are three steps each: the SELECT with  *)
(* the checks and the in-memory arithmetic, the commit (UPDATE), and the   *)
(* refresh (SELECT) that produces the returned balance.                    *)
(*                                                                         *)
(* Campaign service (src/campaign-service/app/database/database.py): the   *)
(* start-up coroutine wait_for_db, one step per connection attempt and per *)
(* sleep.                                                                  *)
(*                                                                         *)
(* User service (src/user-service/main.py): the registration handlers over *)
(* table users, one request handled at a time.                             *)
(***************************************************************************)
EXTENDS Integers, FiniteSets, Sequences, TLC

VARIABLES
    bank_accounts,  \* the committed rows of table bank_accounts
    pc,             \* pc[s]: where request s stands in its coroutine
    req,            \* req[s]: the operation and arguments of request s
    account,        \* account[s]: the ORM object held by the session of s
    committed_state,\* committed_state[s]: the balance that object was loaded with
    result,         \* result[s]: what the last finished call of s returned
    ncalls,         \* number of calls started so far
    quota,          \* number of calls the run admits
    opening,        \* history: opening[u], the balance the account of u started with
    ledger          \* history: opening[u] -/+ the amounts of the debits/credits
                    \*          that reported success

VARIABLES
    db_pc,          \* where wait_for_db stands: idle, connect, sleep, returned, raised
    max_retries,    \* argument of wait_for_db
    delay,          \* argument of wait_for_db, in seconds
    attempt,        \* the loop variable of wait_for_db
    attempts,       \* history: the outcome of every connection attempt, in order
    sleeps,         \* history: the duration of every asyncio.sleep, in order
    raised,         \* the exception wait_for_db or init_db raised
    init_pc,        \* where init_db stands: idle, wait_for_db, create_all, returned, raised
    tables_created, \* whether Base.metadata.create_all has run
    service         \* the campaign service: starting, serving or failed

VARIABLES
    users,          \* the committed rows of table users
    response,       \* the response to the last request of the user service
    nrequests,      \* number of requests the user service has handled
    accessed        \* history: whether the last request read or wrote table users

VARIABLES
    items,          \* the committed rows of table items of the demo service
    item_result,    \* what the last operation of the demo service returned
    nitemcalls      \* number of operations the demo service has run

initvars == <<init_pc, tables_created, service>>
dbvars == <<db_pc, max_retries, delay, attempt, attempts, sleeps, raised, initvars>>
uservars == <<users, response, nrequests, accessed>>
demovars == <<items, item_result, nitemcalls>>

bankvars == <<bank_accounts, pc, req, account, committed_state, result, ncalls, quota,
              opening, ledger>>

\* the variables of the other services
outside == <<dbvars, uservars, demovars>>

vars == <<bank_accounts, pc, req, account, committed_state, result, ncalls, quota,
          opening, ledger, outside>>

----------------------------------------------------------------------------
(* Bounds and input sets *)

MaxCalls == 2
\* number of calls of the scenario: a creation and three transactions
ScenarioCalls == 4
\* largest max_retries passed to wait_for_db
MaxRetries == 4
\* number of requests to the user service
MaxRequests == 3
\* operations of the demo service in a behaviour
MaxItemCalls == 3

\* two requests in flight at a time
Sessions == {1, 2}
Users == {"u1", "u2"}
Ids == {"id1", "id2"}
AccountNumbers == {"ACC1", "ACC2"}
\* amounts of debit/credit requests, in cents (DebitRequest.amount is any Decimal)
Amounts == {-3000, 0, 6000}
\* initial_balance of create requests, in cents
InitialBalances == {-3000, 10000}
\* JSON bodies of create requests for user u: a body may leave out
\* initial_balance and currency
CreateBodies(u) ==
    {[user_id |-> u]}
    \cup {[user_id |-> u, initial_balance |-> b, currency |-> "EUR"] : b \in InitialBalances}
\* what uuid4 and the account number generator yield for a new account
Generated == (Ids \X AccountNumbers) \ {<<"id1", "ACC2">>}
\* balances of the row the store may already hold when the service starts
StoredBalances == {0, 6000, 10000}

None == [none |-> TRUE]

----------------------------------------------------------------------------
(* models.py: the table and its constraints *)

BankAccount(id, user_id, account_number, balance, currency, is_active, created_at, updated_at) ==
    [id |-> id, user_id |-> user_id, account_number |-> account_number,
     balance |-> balance, currency |-> currency, is_active |-> is_active,
     created_at |-> created_at, updated_at |-> updated_at]

\* mutant: initial_balance defaulting to 0, the default of column balance
BankAccountCreateZeroDefault(body) ==
    [user_id |-> body.user_id,
     initial_balance |-> IF "initial_balance" \in DOMAIN body
                         THEN body.initial_balance ELSE 0,
     currency |-> IF "currency" \in DOMAIN body THEN body.currency ELSE "USD"]

\* class BankAccountCreate: the request model with its defaults,
\* initial_balance = Decimal("1000.00") and currency = "USD"
BankAccountCreate(body) ==
    [user_id |-> body.user_id,
     initial_balance |-> IF "initial_balance" \in DOMAIN body
                         THEN body.initial_balance ELSE 100000,
     currency |-> IF "currency" \in DOMAIN body THEN body.currency ELSE "USD"]

\* datetime.utcnow(): the clock, which ticks once with every request that arrives
utcnow == ncalls

\* mutant: column user_id declared without unique=True
UniqueViolationNoUserId(rows, row) ==
    \/ \E r \in rows : r.id = row.id
    \/ \E r \in rows : r.account_number = row.account_number

\* Column(primary_key=True) on id, Column(unique=True) on user_id and account_number:
\* whether the store refuses row as a new row next to rows
UniqueViolation(rows, row) ==
    \/ \E r \in rows : r.id = row.id
    \/ \E r \in rows : r.user_id = row.user_id
    \/ \E r \in rows : r.account_number = row.account_number

\* Result.scalar_one_or_none()
scalar_one_or_none(rows) ==
    IF rows = {} THEN None
    ELSE IF Cardinality(rows) = 1 THEN CHOOSE r \in rows : TRUE
    ELSE [raised |-> "MultipleResultsFound"]

\* select(BankAccount).where(BankAccount.user_id == user_id)
get_account_by_user_id(rows, user_id) ==
    scalar_one_or_none({r \in rows : r.user_id = user_id})

\* select(BankAccount).where(BankAccount.id == account_id)
get_account_by_id(rows, account_id) ==
    scalar_one_or_none({r \in rows : r.id = account_id})

IsRow(a) == DOMAIN a = DOMAIN BankAccount("", "", "", 0, "", TRUE, 0, 0)

----------------------------------------------------------------------------
(* str(Decimal) of an amount of scale 2 *)

Digits2(n) == IF n < 10 THEN "0" \o ToString(n) ELSE ToString(n)

\* mutant: the cents printed without their leading zero
FormatDecimalUnpadded(cents) ==
    LET a == IF cents < 0 THEN -cents ELSE cents
    IN (IF cents < 0 THEN "-" ELSE "") \o ToString(a \div 100) \o "." \o ToString(a % 100)

FormatDecimal(cents) ==
    LET a == IF cents < 0 THEN -cents ELSE cents
    IN (IF cents < 0 THEN "-" ELSE "") \o ToString(a \div 100) \o "." \o Digits2(a % 100)

\* mutant: the two values of the message interchanged
InsufficientMessageSwapped(balance, amount) ==
    "Insufficient balance. Available: " \o FormatDecimal(amount)
        \o ", Required: " \o FormatDecimal(balance)

\* f"Insufficient balance. Available: {account.balance}, Required: {amount}"
InsufficientMessage(balance, amount) ==
    "Insufficient balance. Available: " \o FormatDecimal(balance)
        \o ", Required: " \o FormatDecimal(amount)

----------------------------------------------------------------------------
\* the tables the bank may hold when the service starts: no row, or the
\* account of u1, active with a stored balance or deactivated holding 30.00
StoredTables ==
    {{}}
    \cup {{BankAccount("id1", "u1", "ACC1", b, "USD", TRUE, 0, 0)} : b \in StoredBalances}
    \cup {{BankAccount("id1", "u1", "ACC1", 3000, "USD", FALSE, 0, 0)}}

\* the services at rest over the table rows, in a run that admits calls calls
Started(rows, calls) ==
    /\ bank_accounts = rows
    /\ pc = [s \in Sessions |-> "idle"]
    /\ req = [s \in Sessions |-> None]
    /\ account = [s \in Sessions |-> None]
    /\ committed_state = [s \in Sessions |-> 0]
    /\ result = [s \in Sessions |-> None]
    /\ ncalls = 0
    /\ quota = calls
    /\ db_pc = "idle"
    /\ max_retries = 0
    /\ delay = 0
    /\ attempt = 0
    /\ attempts = <<>>
    /\ sleeps = <<>>
    /\ raised = "none"
    /\ init_pc = "idle"
    /\ tables_created = FALSE
    /\ service = "starting"
    /\ users = {}
    /\ response = None
    /\ nrequests = 0
    /\ accessed = FALSE
    /\ items = {}
    /\ item_result = None
    /\ nitemcalls = 0
    /\ opening = [u \in Users |->
                    LET a == get_account_by_user_id(bank_accounts, u)
                    IN IF IsRow(a) THEN a.balance ELSE 0]
    /\ ledger = opening

Init == \E rows \in StoredTables : Started(rows, MaxCalls)

----------------------------------------------------------------------------
(* The session: flush/commit and refresh *)

\* mutant: updated_at declared without onupdate
CommitUpdateNoStamp(rows, obj, loaded, now) ==
    IF obj.balance = loaded THEN rows
    ELSE {IF r.id = obj.id THEN [r EXCEPT !.balance = obj.balance] ELSE r : r \in rows}

\* mutant: the commit closing an account whose balance reaches zero
CommitUpdateClosingEmpty(rows, obj, loaded, now) ==
    IF obj.balance = loaded THEN rows
    ELSE IF obj.balance = 0 THEN {r \in rows : r.id # obj.id}
    ELSE {IF r.id = obj.id
          THEN [r EXCEPT !.balance = obj.balance, !.updated_at = now]
          ELSE r : r \in rows}

\* mutant: the UPDATE without its WHERE clause
CommitUpdateEveryRow(rows, obj, loaded, now) ==
    IF obj.balance = loaded THEN rows
    ELSE {[r EXCEPT !.balance = obj.balance, !.updated_at = now] : r \in rows}

\* Session.commit() of a loaded object: the unit of work emits
\* UPDATE bank_accounts SET balance = :balance, updated_at = :now WHERE id = :id
\* only when the attribute differs from the value it was loaded with
\* (updated_at has onupdate=datetime.utcnow).
CommitUpdate(rows, obj, loaded, now) ==
    IF obj.balance = loaded THEN rows
    ELSE {IF r.id = obj.id
          THEN [r EXCEPT !.balance = obj.balance, !.updated_at = now]
          ELSE r : r \in rows}

\* Session.refresh(obj): SELECT ... WHERE id = :id
Refresh(rows, obj) == get_account_by_id(rows, obj.id)

\* the call returns (or raises) value; the request ends and its session is closed
Returns(s, value) ==
    /\ result' = [result EXCEPT ![s] = value]
    /\ pc' = [pc EXCEPT ![s] = "idle"]
    /\ account' = [account EXCEPT ![s] = None]
    /\ committed_state' = [committed_state EXCEPT ![s] = 0]

\* the call suspends at an await, at label, holding obj loaded with balance loaded
Awaits(s, label, obj, loaded) ==
    /\ pc' = [pc EXCEPT ![s] = label]
    /\ account' = [account EXCEPT ![s] = obj]
    /\ committed_state' = [committed_state EXCEPT ![s] = loaded]
    /\ UNCHANGED result

\* a request arrives and its handler starts; the first request of a run takes
\* session 1
Begin(s, r) ==
    /\ pc[s] = "idle"
    /\ ncalls < quota
    /\ s = 1 \/ req[1] # None
    /\ ncalls' = ncalls + 1
    /\ req' = [req EXCEPT ![s] = r]
    /\ UNCHANGED <<quota, outside>>

----------------------------------------------------------------------------
(* crud.py: create_account *)

\* mutant: the account built with is_active=False
NewAccountInactive(account_data, account_id, account_number, now) ==
    BankAccount(account_id, account_data.user_id, account_number,
                account_data.initial_balance, account_data.currency, FALSE, now, now)

\* lines 18-25: the BankAccount object; created_at and updated_at take their
\* column default datetime.utcnow when the row is inserted
NewAccount(account_data, account_id, account_number, now) ==
    BankAccount(account_id, account_data.user_id, account_number,
                account_data.initial_balance, account_data.currency, TRUE, now, now)

\* lines 13-28: build the row and commit the INSERT; the store refuses a row
\* that breaks a uniqueness constraint and commit raises IntegrityError
create_account(s, account_data, account_id, account_number) ==
    LET row == NewAccount(account_data, account_id, account_number, utcnow')
        user_id == account_data.user_id
    IN /\ Begin(s, [op |-> "create_account", user_id |-> user_id,
                    amount |-> account_data.initial_balance,
                    currency |-> account_data.currency])
       /\ IF UniqueViolation(bank_accounts, row)
          THEN /\ Returns(s, [raised |-> "IntegrityError"])
               /\ UNCHANGED <<bank_accounts, opening, ledger>>
          ELSE /\ bank_accounts' = bank_accounts \cup {row}
               /\ opening' = [opening EXCEPT ![user_id] = account_data.initial_balance]
               /\ ledger' = [ledger EXCEPT ![user_id] = account_data.initial_balance]
               /\ Awaits(s, "create_refresh", row, account_data.initial_balance)

\* lines 29-32: refresh and return the account
create_account_refresh(s) ==
    /\ pc[s] = "create_refresh"
    /\ Returns(s, [account |-> Refresh(bank_accounts, account[s])])
    /\ UNCHANGED <<bank_accounts, req, ncalls, quota, opening, ledger, outside>>

----------------------------------------------------------------------------
(* crud.py: the read-only operations *)

\* mutant: the lookup stamping the row it reads
get_account_touching(s, user_id) ==
    /\ Begin(s, [op |-> "get_account", user_id |-> user_id, amount |-> 0])
    /\ Returns(s, [account |-> get_account_by_user_id(bank_accounts, user_id)])
    /\ bank_accounts' = {IF r.user_id = user_id THEN [r EXCEPT !.updated_at = utcnow'] ELSE r
                            : r \in bank_accounts}
    /\ UNCHANGED <<opening, ledger>>

\* lines 34-39 as called by a request
get_account(s, user_id) ==
    /\ Begin(s, [op |-> "get_account", user_id |-> user_id, amount |-> 0])
    /\ Returns(s, [account |-> get_account_by_user_id(bank_accounts, user_id)])
    /\ UNCHANGED <<bank_accounts, opening, ledger>>

\* mutant: check_balance testing the balance before the active flag
CheckBalanceResultSufficiencyFirst(a, amount) ==
    IF a = None THEN [ok |-> FALSE, message |-> "Account not found"]
    ELSE IF ~IsRow(a) THEN a
    ELSE IF a.balance < amount
         THEN [ok |-> FALSE, message |-> InsufficientMessage(a.balance, amount)]
    ELSE IF ~a.is_active THEN [ok |-> FALSE, message |-> "Account is inactive"]
    ELSE [ok |-> TRUE, message |-> "Sufficient balance"]

\* lines 48-61: the value check_balance returns for the row (or None) it read
CheckBalanceResult(a, amount) ==
    IF a = None THEN [ok |-> FALSE, message |-> "Account not found"]
    ELSE IF ~IsRow(a) THEN a
    ELSE IF ~a.is_active THEN [ok |-> FALSE, message |-> "Account is inactive"]
    ELSE IF a.balance < amount
         THEN [ok |-> FALSE, message |-> InsufficientMessage(a.balance, amount)]
    ELSE [ok |-> TRUE, message |-> "Sufficient balance"]

check_balance(s, user_id, amount) ==
    /\ Begin(s, [op |-> "check_balance", user_id |-> user_id, amount |-> amount])
    /\ Returns(s, CheckBalanceResult(get_account_by_user_id(bank_accounts, user_id), amount))
    /\ UNCHANGED <<bank_accounts, opening, ledger>>

----------------------------------------------------------------------------
(* crud.py: debit_account *)

\* mutant: debit_account without the sufficiency check of lines 73-74
DebitRejectionNoSufficiency(a, amount) ==
    IF a = None THEN [ok |-> FALSE, message |-> "Account not found", balance |-> 0]
    ELSE IF ~IsRow(a) THEN a
    ELSE IF ~a.is_active
         THEN [ok |-> FALSE, message |-> "Account is inactive", balance |-> a.balance]
    ELSE None

\* mutant: the sufficiency check of line 73 written with <= instead of <
DebitRejectionStrict(a, amount) ==
    IF a = None THEN [ok |-> FALSE, message |-> "Account not found", balance |-> 0]
    ELSE IF ~IsRow(a) THEN a
    ELSE IF ~a.is_active
         THEN [ok |-> FALSE, message |-> "Account is inactive", balance |-> a.balance]
    ELSE IF a.balance <= amount
         THEN [ok |-> FALSE, message |-> InsufficientMessage(a.balance, amount),
               balance |-> a.balance]
    ELSE None

\* mutant: the sufficiency check of lines 73-74 placed before the active check
\* of lines 70-71
DebitRejectionSufficiencyFirst(a, amount) ==
    IF a = None THEN [ok |-> FALSE, message |-> "Account not found", balance |-> 0]
    ELSE IF ~IsRow(a) THEN a
    ELSE IF a.balance < amount
         THEN [ok |-> FALSE, message |-> InsufficientMessage(a.balance, amount),
               balance |-> a.balance]
    ELSE IF ~a.is_active
         THEN [ok |-> FALSE, message |-> "Account is inactive", balance |-> a.balance]
    ELSE None

\* mutant: debit_account refusing an amount that is not positive
DebitRejectionNonPositive(a, amount) ==
    IF a = None THEN [ok |-> FALSE, message |-> "Account not found", balance |-> 0]
    ELSE IF ~IsRow(a) THEN a
    ELSE IF ~a.is_active
         THEN [ok |-> FALSE, message |-> "Account is inactive", balance |-> a.balance]
    ELSE IF amount <= 0
         THEN [ok |-> FALSE, message |-> "Invalid amount", balance |-> a.balance]
    ELSE IF a.balance < amount
         THEN [ok |-> FALSE, message |-> InsufficientMessage(a.balance, amount),
               balance |-> a.balance]
    ELSE None

\* lines 67-74: the early returns of debit_account, None when there is none
DebitRejection(a, amount) ==
    IF a = None THEN [ok |-> FALSE, message |-> "Account not found", balance |-> 0]
    ELSE IF ~IsRow(a) THEN a
    ELSE IF ~a.is_active
         THEN [ok |-> FALSE, message |-> "Account is inactive", balance |-> a.balance]
    ELSE IF a.balance < amount
         THEN [ok |-> FALSE, message |-> InsufficientMessage(a.balance, amount),
               balance |-> a.balance]
    ELSE None

\* line 77: account.balance -= amount
DebitedBalance(balance, amount) == balance - amount

\* lines 65-77: SELECT, the checks, and the subtraction on the loaded object
debit_account(s, user_id, amount) ==
    LET a == get_account_by_user_id(bank_accounts, user_id)
        rejection == DebitRejection(a, amount)
    IN /\ Begin(s, [op |-> "debit_account", user_id |-> user_id, amount |-> amount])
       /\ IF rejection # None
          THEN Returns(s, rejection)
          ELSE Awaits(s, "debit_commit",
                      [a EXCEPT !.balance = DebitedBalance(a.balance, amount)], a.balance)
       /\ UNCHANGED <<bank_accounts, opening, ledger>>

\* line 78: await db.commit()
debit_account_commit(s) ==
    /\ pc[s] = "debit_commit"
    /\ bank_accounts' = CommitUpdate(bank_accounts, account[s], committed_state[s], utcnow)
    /\ pc' = [pc EXCEPT ![s] = "debit_refresh"]
    /\ UNCHANGED <<req, account, committed_state, result, ncalls, quota, opening, ledger,
                   outside>>

\* lines 79-82: await db.refresh(account) and the successful return
debit_account_refresh(s) ==
    /\ pc[s] = "debit_refresh"
    /\ Returns(s, [ok |-> TRUE, message |-> "Transaction successful",
                   balance |-> Refresh(bank_accounts, account[s]).balance])
    /\ ledger' = [ledger EXCEPT ![req[s].user_id] = @ - req[s].amount]
    /\ UNCHANGED <<bank_accounts, req, ncalls, quota, opening, outside>>

----------------------------------------------------------------------------
(* crud.py: credit_account *)

\* mutant: credit_account with the sufficiency check of debit_account copied in
CreditRejectionWithSufficiency(a, amount) ==
    IF a = None THEN [ok |-> FALSE, message |-> "Account not found", balance |-> 0]
    ELSE IF ~IsRow(a) THEN a
    ELSE IF ~a.is_active
         THEN [ok |-> FALSE, message |-> "Account is inactive", balance |-> a.balance]
    ELSE IF a.balance < amount
         THEN [ok |-> FALSE, message |-> InsufficientMessage(a.balance, amount),
               balance |-> a.balance]
    ELSE None

\* mutant: credit_account returning 0 as the balance of an inactive account
CreditRejectionZeroBalance(a, amount) ==
    IF a = None THEN [ok |-> FALSE, message |-> "Account not found", balance |-> 0]
    ELSE IF ~IsRow(a) THEN a
    ELSE IF ~a.is_active
         THEN [ok |-> FALSE, message |-> "Account is inactive", balance |-> 0]
    ELSE None

\* mutant: credit_account refusing an amount below zero
CreditRejectionNegativeAmount(a, amount) ==
    IF a = None THEN [ok |-> FALSE, message |-> "Account not found", balance |-> 0]
    ELSE IF ~IsRow(a) THEN a
    ELSE IF ~a.is_active
         THEN [ok |-> FALSE, message |-> "Account is inactive", balance |-> a.balance]
    ELSE IF amount < 0
         THEN [ok |-> FALSE, message |-> "Invalid amount", balance |-> a.balance]
    ELSE None

\* lines 88-92: the early returns of credit_account, None when there is none
CreditRejection(a, amount) ==
    IF a = None THEN [ok |-> FALSE, message |-> "Account not found", balance |-> 0]
    ELSE IF ~IsRow(a) THEN a
    ELSE IF ~a.is_active
         THEN [ok |-> FALSE, message |-> "Account is inactive", balance |-> a.balance]
    ELSE None

\* line 95: account.balance += amount
CreditedBalance(balance, amount) == balance + amount

\* lines 86-95: SELECT, the checks, and the addition on the loaded object
credit_account(s, user_id, amount) ==
    LET a == get_account_by_user_id(bank_accounts, user_id)
        rejection == CreditRejection(a, amount)
    IN /\ Begin(s, [op |-> "credit_account", user_id |-> user_id, amount |-> amount])
       /\ IF rejection # None
          THEN Returns(s, rejection)
          ELSE Awaits(s, "credit_commit",
                      [a EXCEPT !.balance = CreditedBalance(a.balance, amount)], a.balance)
       /\ UNCHANGED <<bank_accounts, opening, ledger>>

\* line 96: await db.commit()
credit_account_commit(s) ==
    /\ pc[s] = "credit_commit"
    /\ bank_accounts' = CommitUpdate(bank_accounts, account[s], committed_state[s], utcnow)
    /\ pc' = [pc EXCEPT ![s] = "credit_refresh"]
    /\ UNCHANGED <<req, account, committed_state, result, ncalls, quota, opening, ledger,
                   outside>>

\* lines 97-100: await db.refresh(account) and the successful return
credit_account_refresh(s) ==
    /\ pc[s] = "credit_refresh"
    /\ Returns(s, [ok |-> TRUE, message |-> "Transaction successful",
                   balance |-> Refresh(bank_accounts, account[s]).balance])
    /\ ledger' = [ledger EXCEPT ![req[s].user_id] = @ + req[s].amount]
    /\ UNCHANGED <<bank_accounts, req, ncalls, quota, opening, outside>>

----------------------------------------------------------------------------
(* Specifications *)

\* one step of request s
Step(s) ==
    \/ \E u \in Users, g \in Generated :
          \E body \in CreateBodies(u) :
             create_account(s, BankAccountCreate(body), g[1], g[2])
    \/ create_account_refresh(s)
    \/ \E u \in Users : get_account(s, u)
    \/ \E u \in Users, m \in Amounts : check_balance(s, u, m)
    \/ \E u \in Users, m \in Amounts : debit_account(s, u, m)
    \/ debit_account_commit(s)
    \/ debit_account_refresh(s)
    \/ \E u \in Users, m \in Amounts : credit_account(s, u, m)
    \/ credit_account_commit(s)
    \/ credit_account_refresh(s)

\* requests are served concurrently: any request may take its next step
Next == \E s \in Sessions : Step(s)

Spec == Init /\ [][Next]_vars

\* requests are served one at a time: a request runs from its first step to
\* its return before another starts
Quiet(s) == \A t \in Sessions \ {s} : pc[t] = "idle"

NextSerial ==
    \E s \in Sessions :
        \/ Quiet(s) /\ \E u \in Users, g \in Generated :
                          \E body \in CreateBodies(u) :
                             create_account(s, BankAccountCreate(body), g[1], g[2])
        \/ Quiet(s) /\ create_account_refresh(s)
        \/ Quiet(s) /\ \E u \in Users : get_account(s, u)
        \/ Quiet(s) /\ \E u \in Users, m \in Amounts : check_balance(s, u, m)
        \/ Quiet(s) /\ \E u \in Users, m \in Amounts : debit_account(s, u, m)
        \/ Quiet(s) /\ debit_account_commit(s)
        \/ Quiet(s) /\ debit_account_refresh(s)
        \/ Quiet(s) /\ \E u \in Users, m \in Amounts : credit_account(s, u, m)
        \/ Quiet(s) /\ credit_account_commit(s)
        \/ Quiet(s) /\ credit_account_refresh(s)

SpecSerial == Init /\ [][NextSerial]_vars

\* the scenario: over an empty table, user u1 opens an account with the default
\* body and debits and credits it with the scenario's amounts, a call at a time
ScenarioAmounts == {5000, 30000, 80000}

NextScenario ==
    \E s \in Sessions :
        \/ Quiet(s) /\ \E g \in Generated :
                          create_account(s, BankAccountCreate([user_id |-> "u1"]), g[1], g[2])
        \/ Quiet(s) /\ create_account_refresh(s)
        \/ Quiet(s) /\ \E m \in ScenarioAmounts : debit_account(s, "u1", m)
        \/ Quiet(s) /\ debit_account_commit(s)
        \/ Quiet(s) /\ debit_account_refresh(s)
        \/ Quiet(s) /\ \E m \in ScenarioAmounts : credit_account(s, "u1", m)
        \/ Quiet(s) /\ credit_account_commit(s)
        \/ Quiet(s) /\ credit_account_refresh(s)

SpecScenario == Started({}, ScenarioCalls) /\ [][NextScenario]_vars

\* the operations of crud.py over a table that starts empty: every account
\* there is was created by create_account
SpecFresh == Started({}, MaxCalls) /\ [][Next]_vars

\* debits and credits, interleaved at their awaits, over a table that holds an
\* active account for each of the two users
TwoAccounts ==
    {{BankAccount("id1", "u1", "ACC1", b1, "USD", TRUE, 0, 0),
      BankAccount("id2", "u2", "ACC2", b2, "USD", TRUE, 0, 0)} : b1, b2 \in StoredBalances}

NextTransactions ==
    \E s \in Sessions :
        \/ \E u \in Users, m \in Amounts : debit_account(s, u, m)
        \/ debit_account_commit(s)
        \/ debit_account_refresh(s)
        \/ \E u \in Users, m \in Amounts : credit_account(s, u, m)
        \/ credit_account_commit(s)
        \/ credit_account_refresh(s)

SpecTransactions ==
    (\E rows \in TwoAccounts : Started(rows, MaxCalls)) /\ [][NextTransactions]_vars

----------------------------------------------------------------------------
(* campaign-service/app/database/database.py: wait_for_db *)

\* delay arguments, in seconds (2 is the default)
Delays == {1, 2}
\* what a failed connection attempt raises
Errors == {"ConnectionRefusedError", "TimeoutError"}

\* mutant: sleeping after every failed attempt, the last one included
SleepsBeforeRetryAlways(i, n) == i < n

\* line 46: if attempt < max_retries - 1
SleepsBeforeRetry(i, n) == i < n - 1

\* line 35: for attempt in range(max_retries), asked for the value i: the body
\* runs with attempt = i, or the loop is exhausted and the function falls off
\* its end, returning None
ForAttempt(i, n) ==
    IF i < n
    THEN db_pc' = "connect" /\ attempt' = i
    ELSE db_pc' = "returned" /\ UNCHANGED attempt

\* line 34: the call wait_for_db(n, d)
wait_for_db(n, d) ==
    /\ db_pc = "idle"
    /\ max_retries' = n
    /\ delay' = d
    /\ ForAttempt(0, n)
    /\ UNCHANGED <<attempts, sleeps, raised, bankvars, uservars, demovars>>

\* lines 36-40: the connection and SELECT 1 succeed; return
wait_for_db_connected ==
    /\ db_pc = "connect"
    /\ attempts' = Append(attempts, "ok")
    /\ db_pc' = "returned"
    /\ UNCHANGED <<max_retries, delay, attempt, sleeps, raised, initvars, bankvars,
                   uservars, demovars>>

\* lines 41-50: the attempt raises e; go to sleep before the next attempt, or
\* re-raise e when this was the last one
wait_for_db_except(e) ==
    /\ db_pc = "connect"
    /\ attempts' = Append(attempts, e)
    /\ IF SleepsBeforeRetry(attempt, max_retries)
       THEN db_pc' = "sleep" /\ UNCHANGED raised
       ELSE db_pc' = "raised" /\ raised' = e
    /\ UNCHANGED <<max_retries, delay, attempt, sleeps, initvars, bankvars, uservars,
                   demovars>>

\* line 47: asyncio.sleep(delay) returns; the loop takes its next value
wait_for_db_slept ==
    /\ db_pc = "sleep"
    /\ sleeps' = Append(sleeps, delay)
    /\ ForAttempt(attempt + 1, max_retries)
    /\ UNCHANGED <<max_retries, delay, attempts, raised, initvars, bankvars, uservars,
                   demovars>>

NextDb ==
    \/ \E n \in 0..MaxRetries, d \in Delays : wait_for_db(n, d) /\ UNCHANGED initvars
    \/ wait_for_db_connected
    \/ \E e \in Errors : wait_for_db_except(e)
    \/ wait_for_db_slept

\* the service starts with an empty bank; the event loop runs the coroutine
\* whenever it can take a step, and every connection attempt ends
SpecDb == Started({}, MaxCalls) /\ [][NextDb]_vars /\ WF_vars(NextDb)

----------------------------------------------------------------------------
(* campaign-service/app/database/database.py: init_db, awaited by the      *)
(* service's startup                                                       *)

\* line 34: def wait_for_db(max_retries=30, delay=2)
DefaultMaxRetries == 30
DefaultDelay == 2

\* what an attempt raises while the store is unreachable
Unreachable == "ConnectionRefusedError"

\* line 54: await wait_for_db(), with the default arguments
init_db ==
    /\ init_pc = "idle"
    /\ init_pc' = "wait_for_db"
    /\ wait_for_db(DefaultMaxRetries, DefaultDelay)
    /\ UNCHANGED <<tables_created, service>>

\* mutant: wait_for_db awaited in a try whose except clause only logs
wait_for_db_awaited_or_failed == db_pc \in {"returned", "raised"}

\* line 54: the await of wait_for_db() has returned, and line 56 is reached
wait_for_db_awaited == db_pc = "returned"

\* lines 56-59: engine.begin(), create_all, and the return of init_db
init_db_create_all ==
    /\ init_pc = "wait_for_db"
    /\ wait_for_db_awaited
    /\ tables_created' = TRUE
    /\ init_pc' = "returned"
    /\ UNCHANGED <<db_pc, max_retries, delay, attempt, attempts, sleeps, raised, service,
                   bankvars, uservars, demovars>>

\* lines 56-57: engine.begin() or create_all raises e, which leaves init_db
init_db_create_all_except(e) ==
    /\ init_pc = "wait_for_db"
    /\ wait_for_db_awaited
    /\ raised' = e
    /\ init_pc' = "raised"
    /\ UNCHANGED <<db_pc, max_retries, delay, attempt, attempts, sleeps, tables_created,
                   service, bankvars, uservars, demovars>>

\* line 54: the exception wait_for_db raised leaves init_db, which has no handler
init_db_except ==
    /\ init_pc = "wait_for_db"
    /\ db_pc = "raised"
    /\ init_pc' = "raised"
    /\ UNCHANGED <<db_pc, max_retries, delay, attempt, attempts, sleeps, raised,
                   tables_created, service, bankvars, uservars, demovars>>

\* the startup handler awaits init_db(): when it returns the application
\* goes on to accept requests
startup_complete ==
    /\ service = "starting"
    /\ init_pc = "returned"
    /\ service' = "serving"
    /\ UNCHANGED <<db_pc, max_retries, delay, attempt, attempts, sleeps, raised, init_pc,
                   tables_created, bankvars, uservars, demovars>>

\* the startup handler awaits init_db(): when it raises the application
\* start-up fails
startup_failed ==
    /\ service = "starting"
    /\ init_pc = "raised"
    /\ service' = "failed"
    /\ UNCHANGED <<db_pc, max_retries, delay, attempt, attempts, sleeps, raised, init_pc,
                   tables_created, bankvars, uservars, demovars>>

NextInit ==
    \/ init_db
    \/ wait_for_db_connected
    \/ wait_for_db_except(Unreachable)
    \/ wait_for_db_slept
    \/ init_db_create_all
    \/ \E e \in Errors : init_db_create_all_except(e)
    \/ init_db_except
    \/ startup_complete
    \/ startup_failed

\* the event loop runs the start-up whenever it can take a step
SpecInit == Started({}, MaxCalls) /\ [][NextInit]_vars /\ WF_vars(NextInit)

----------------------------------------------------------------------------
(* user-service: table users (models.py) and the registration handlers     *)
(* (main.py); the handlers are taken one request at a time                 *)

Emails == {"ann@example.com", "bob@example.com"}
Passwords == {"password1", "password2"}
Roles == {"user", "admin"}
\* values of header X-User-Role; "null" stands for the absent header
XUserRoles == {"null", "user", "admin"}
\* validated request bodies (class UserCreate)
UserCreates == [email : Emails, full_name : {"Ann"}, role : Roles, password : Passwords]

\* class User: a row of table users
User(id, email, hashed_password, full_name, role, is_active, last_login) ==
    [id |-> id, email |-> email, hashed_password |-> hashed_password,
     full_name |-> full_name, role |-> role, is_active |-> is_active,
     last_login |-> last_login]

\* utils.hash_password
hash_password(password) == "$hash$" \o password

\* the constraints of table users: primary key id, unique email
UserUniqueViolation(rows, row) ==
    \E r \in rows : r.id = row.id \/ r.email = row.email

\* crud.get_user_by_email: SELECT ... WHERE email = :email, scalar_one_or_none
get_user_by_email(rows, email) ==
    scalar_one_or_none({r \in rows : r.email = email})

\* crud.create_user builds the row from the request: the password is stored
\* hashed, the id is a fresh uuid4, is_active takes its column default and
\* last_login is NULL
NewUser(user_data, id) ==
    User(id, user_data.email, hash_password(user_data.password),
         user_data.full_name, user_data.role, TRUE, None)

HTTPException(status_code, detail) == [status_code |-> status_code, detail |-> detail]

\* class UserResponse, and the dict register returns
UserResponse(user) ==
    [id |-> user.id, email |-> user.email, full_name |-> user.full_name,
     role |-> user.role]

\* the answer of a handler that returns body
Ok(body) == [status_code |-> 200, body |-> body]

\* mutant: the existence check never fires
AlreadyRegisteredNever(existing_user) == FALSE

\* main.py lines 84-85 and 224-225: if existing_user
AlreadyRegistered(existing_user) == existing_user # None

\* a request reaches the user service
Handle ==
    /\ nrequests < MaxRequests
    /\ nrequests' = nrequests + 1
    /\ UNCHANGED <<bankvars, dbvars, demovars>>

\* lines 83-97 and 224-229: the duplicate check, create_user (add, commit,
\* refresh; the commit raises IntegrityError when the row breaks a constraint,
\* which the framework answers with 500) and the response with status_code
CheckAndCreate(user_data, status_code) ==
    LET existing_user == get_user_by_email(users, user_data.email)
        user == NewUser(user_data, nrequests')
    IN IF AlreadyRegistered(existing_user)
       THEN /\ response' = HTTPException(400, "Email already registered")
            /\ accessed' = TRUE
            /\ UNCHANGED users
       ELSE IF UserUniqueViolation(users, user)
            THEN /\ response' = HTTPException(500, "Internal Server Error")
                 /\ accessed' = TRUE
                 /\ UNCHANGED users
            ELSE /\ users' = users \cup {user}
                 /\ accessed' = TRUE
                 /\ response' = [status_code |-> status_code,
                                 body |-> UserResponse(user)]

\* POST /api/v1/auth/register, status_code=201
register(user_data) ==
    /\ Handle
    /\ CheckAndCreate(user_data, 201)

\* mutant: any role the gateway sends is taken
require_admin_any_role(x_user_role) == x_user_role # "null"

\* lines 68-71: require_admin
require_admin(x_user_role) == x_user_role = "admin"

\* lines 70-71: the dependency raises before the handler is entered
Forbidden ==
    /\ response' = HTTPException(403, "Admin access required")
    /\ accessed' = FALSE
    /\ UNCHANGED users

\* POST /users, dependencies=[Depends(require_admin)]
admin_create_user(x_user_role, user_data) ==
    /\ Handle
    /\ IF ~require_admin(x_user_role)
       THEN Forbidden
       ELSE CheckAndCreate(user_data, 200)

NextUsers ==
    \/ \E user_data \in UserCreates : register(user_data)
    \/ \E h \in XUserRoles, user_data \in UserCreates : admin_create_user(h, user_data)

SpecUsers == Started({}, MaxCalls) /\ [][NextUsers]_vars

----------------------------------------------------------------------------
(* user-service: the login check and the profile and administration        *)
(* endpoints (main.py lines 99-219)                                        *)

\* a dict key or a header that is absent reads as Python None
Absent == "null"
\* values of "email" and "password" in the body of validate-credentials
CredentialEmails == {Absent, ""} \cup Emails
CredentialPasswords == {Absent, ""} \cup Passwords
Credentials == [email : CredentialEmails, password : CredentialPasswords]
\* values of header X-User-Role
GatewayRoles == XUserRoles \cup {"", "Admin"}
\* str(user.id) of the users the requests may create, and of none of them
UserIds == {"0", "1", "2"}
\* values of header X-User-Id
XUserIds == {Absent, ""} \cup UserIds
\* validated request bodies (class UserUpdate): the fields the request sets
UserUpdates ==
    {[is_active |-> FALSE], [is_active |-> TRUE], [password |-> "password2"],
     [email |-> "bob@example.com", role |-> "admin"]}

\* Python truth of an optional string: None and "" are false
Truthy(v) == v \notin {Absent, ""}

\* datetime.utcnow(): the service's clock advances with every request
datetime(t) == [timestamp |-> t]

\* utils.verify_password: the hash is the hash of the plain password
verify_password(plain_password, hashed_password) ==
    hashed_password = hash_password(plain_password)

\* crud.get_user_by_id: SELECT ... WHERE id = :user_id, scalar_one_or_none
get_user_by_id(rows, user_id) ==
    scalar_one_or_none({r \in rows : ToString(r.id) = user_id})

\* crud.validate_user_credentials: get_user_by_email, then verify_password;
\* the user, or None
validate_user_credentials(rows, email, password) ==
    LET user == get_user_by_email(rows, email)
    IN IF user = None THEN None
       ELSE IF ~verify_password(password, user.hashed_password) THEN None
       ELSE user

\* crud.update_user sets the fields the request sets; a password is stored
\* hashed
UpdatedUser(user, user_update) ==
    [f \in DOMAIN user |->
        IF f = "hashed_password" /\ "password" \in DOMAIN user_update
        THEN hash_password(user_update.password)
        ELSE IF f \in DOMAIN user_update THEN user_update[f] ELSE user[f]]

\* crud.update_user: get_user_by_id, setattr, commit, refresh; the commit
\* raises IntegrityError when the new email is another user's
update_user(user_id, user_update) ==
    LET user == get_user_by_id(users, user_id)
        updated_user == UpdatedUser(user, user_update)
    IN /\ accessed' = TRUE
       /\ IF UserUniqueViolation(users \ {user}, updated_user)
          THEN /\ response' = HTTPException(500, "Internal Server Error")
               /\ UNCHANGED users
          ELSE /\ users' = (users \ {user}) \cup {updated_user}
               /\ response' = Ok(UserResponse(updated_user))

\* crud.delete_user: get_user_by_id, then delete and commit when found; the
\* handlers answer with message whatever it returns
delete_user(user_id, message) ==
    /\ accessed' = TRUE
    /\ users' = users \ {get_user_by_id(users, user_id)}
    /\ response' = Ok([message |-> message])

\* mutant: only a request with neither an email nor a password is refused
MissingCredentialsBoth(email, password) == ~Truthy(email) /\ ~Truthy(password)

\* line 107: if not email or not password
MissingCredentials(email, password) == ~Truthy(email) \/ ~Truthy(password)

\* lines 99-129: POST /api/v1/auth/validate-credentials
validate_credentials(credentials) ==
    LET email == credentials.email
        password == credentials.password
        user == validate_user_credentials(users, email, password)
    IN /\ Handle
       /\ IF MissingCredentials(email, password)
          THEN /\ response' = HTTPException(400, "Email and password required")
               /\ accessed' = FALSE
               /\ UNCHANGED users
          ELSE /\ accessed' = TRUE
               /\ IF user = None
                  THEN /\ response' = HTTPException(401, "Invalid credentials")
                       /\ UNCHANGED users
                  ELSE IF ~user.is_active
                  THEN /\ response' = HTTPException(403, "Account disabled")
                       /\ UNCHANGED users
                  ELSE /\ users' = (users \ {user}) \cup
                                      {[user EXCEPT !.last_login = datetime(nrequests')]}
                       /\ response' = Ok(UserResponse(user))

\* mutant: only an absent header is refused
NotAuthenticatedAbsent(user_id) == user_id = Absent

\* lines 141, 157 and 174: if not user_id
NotAuthenticated(user_id) == ~Truthy(user_id)

\* lines 142, 158 and 175: raise HTTPException(status_code=401, ...)
Unauthorized ==
    /\ response' = HTTPException(401, "Not authenticated")
    /\ accessed' = FALSE
    /\ UNCHANGED users

\* lines 145-146, 161-162, 196-197 and 208-209: get_user_by_id found no user
NotFound ==
    /\ response' = HTTPException(404, "User not found")
    /\ accessed' = TRUE
    /\ UNCHANGED users

\* lines 135-148: GET /users/me
get_my_profile(x_user_id) ==
    /\ Handle
    /\ IF NotAuthenticated(x_user_id) THEN Unauthorized
       ELSE IF get_user_by_id(users, x_user_id) = None THEN NotFound
       ELSE /\ response' = Ok(UserResponse(get_user_by_id(users, x_user_id)))
            /\ accessed' = TRUE
            /\ UNCHANGED users

\* lines 150-166: PUT /users/me
update_my_profile(x_user_id, user_update) ==
    /\ Handle
    /\ IF NotAuthenticated(x_user_id) THEN Unauthorized
       ELSE IF get_user_by_id(users, x_user_id) = None THEN NotFound
       ELSE update_user(x_user_id, user_update)

\* lines 168-177: DELETE /users/me
delete_my_account(x_user_id) ==
    /\ Handle
    /\ IF NotAuthenticated(x_user_id) THEN Unauthorized
       ELSE delete_user(x_user_id, "Account deleted successfully")

\* lines 183-191: GET /users; crud.get_all_users with the default skip and
\* limit selects every row, and the body is the list of their responses
list_users(x_user_role) ==
    /\ Handle
    /\ IF ~require_admin(x_user_role) THEN Forbidden
       ELSE /\ response' = Ok([list |-> {UserResponse(user) : user \in users}])
            /\ accessed' = TRUE
            /\ UNCHANGED users

\* lines 193-199: GET /users/{user_id}
get_user(x_user_role, user_id) ==
    /\ Handle
    /\ IF ~require_admin(x_user_role) THEN Forbidden
       ELSE IF get_user_by_id(users, user_id) = None THEN NotFound
       ELSE /\ response' = Ok(UserResponse(get_user_by_id(users, user_id)))
            /\ accessed' = TRUE
            /\ UNCHANGED users

\* lines 201-213: PUT /users/{user_id}
admin_update_user(x_user_role, user_id, user_update) ==
    /\ Handle
    /\ IF ~require_admin(x_user_role) THEN Forbidden
       ELSE IF get_user_by_id(users, user_id) = None THEN NotFound
       ELSE update_user(user_id, user_update)

\* lines 215-219: DELETE /users/{user_id}
admin_delete_user(x_user_role, user_id) ==
    /\ Handle
    /\ IF ~require_admin(x_user_role) THEN Forbidden
       ELSE delete_user(user_id, "User deleted successfully")

NextUserService ==
    \/ \E user_data \in UserCreates : register(user_data)
    \/ \E credentials \in Credentials : validate_credentials(credentials)
    \/ \E x_user_id \in XUserIds : get_my_profile(x_user_id)
    \/ \E x_user_id \in XUserIds, user_update \in UserUpdates :
          update_my_profile(x_user_id, user_update)
    \/ \E x_user_id \in XUserIds : delete_my_account(x_user_id)
    \/ \E x_user_role \in GatewayRoles : list_users(x_user_role)
    \/ \E x_user_role \in GatewayRoles, user_id \in UserIds : get_user(x_user_role, user_id)
    \/ \E x_user_role \in GatewayRoles, user_id \in UserIds, user_update \in UserUpdates :
          admin_update_user(x_user_role, user_id, user_update)
    \/ \E x_user_role \in GatewayRoles, user_id \in UserIds :
          admin_delete_user(x_user_role, user_id)
    \/ \E x_user_role \in GatewayRoles, user_data \in UserCreates :
          admin_create_user(x_user_role, user_data)

SpecUserService == Started({}, MaxCalls) /\ [][NextUserService]_vars

----------------------------------------------------------------------------
(* demo-service: table items (models.py), crud.py and the item endpoints   *)
(* of main.py; the requests are taken one at a time                        *)

\* a column or request field holding value v; None is SQL NULL and JSON null
Some(v) == [value |-> v]
\* a field of ItemUpdate the request does not mention
Unset == [unset |-> TRUE]

\* models.py lines 47-53: the fields of ItemUpdate
ItemFields == {"name", "description", "price", "quantity", "is_available"}
\* models.py lines 21-25: the columns among them declared nullable=False
NotNullColumns == {"name", "price", "quantity", "is_available"}

\* class Item: a row of table items
Item(id, name, description, price, quantity, is_available, created_at, updated_at) ==
    [id |-> id, name |-> name, description |-> description, price |-> price,
     quantity |-> quantity, is_available |-> is_available,
     created_at |-> created_at, updated_at |-> updated_at]

\* class ItemCreate: name and price are required, description defaults to
\* None, quantity to 0 and is_available to True
ItemCreate(name, description, price) ==
    [name |-> Some(name), description |-> description, price |-> Some(price),
     quantity |-> Some(0), is_available |-> Some(TRUE)]

\* class ItemUpdate: every field is optional
ItemUpdate(name, description, price, quantity, is_available) ==
    [name |-> name, description |-> description, price |-> price,
     quantity |-> quantity, is_available |-> is_available]

\* validated bodies of POST /items
ItemCreates == {ItemCreate("pen", None, 5), ItemCreate("ink", Some("blue"), 0)}

\* validated bodies of PUT /items/{item_id}: no field, fields with values
\* (new ones and the ones the items already have), and fields set to null
ItemUpdates ==
    {ItemUpdate(Unset, Unset, Unset, Unset, Unset),
     ItemUpdate(Some("ink"), Unset, Unset, Unset, Some(FALSE)),
     ItemUpdate(Unset, None, Unset, Unset, Unset),
     ItemUpdate(Unset, Some("blue"), Some(0), Unset, Unset),
     ItemUpdate(None, Unset, Some(7), Unset, Unset),
     ItemUpdate(Unset, Unset, Unset, None, Unset)}

\* item_id of the requests: str(item.id) of the items the requests may
\* create, and of none of them
ItemIds == {"0", "1", "2"}

\* class ItemResponse, from_orm
ItemResponse(item) ==
    [f \in {"id", "name", "description", "price", "quantity", "is_available",
             "created_at", "updated_at"} |-> item[f]]

\* what an operation leaves behind: the value crud returned (or the
\* exception it raised) and the answer of the endpoint
ItemResult(op, item_id, returned, http) ==
    [op |-> op, item_id |-> item_id, returned |-> returned, response |-> http]

Raised(e) == [raised |-> e]

\* a request reaches the demo service
HandleItem ==
    /\ nitemcalls < MaxItemCalls
    /\ nitemcalls' = nitemcalls + 1
    /\ UNCHANGED <<bankvars, dbvars, uservars>>

\* crud.py lines 16-31 and main.py lines 56-60: the row takes the fields of
\* the request, a fresh uuid4 and the time of the INSERT
create_new_item(item_data) ==
    LET item == Item(nitemcalls', item_data.name, item_data.description,
                     item_data.price, item_data.quantity, item_data.is_available,
                     Some(nitemcalls'), Some(nitemcalls'))
    IN /\ HandleItem
       /\ items' = items \cup {item}
       /\ item_result' = ItemResult("create_item", ToString(item.id), item,
                                    [status_code |-> 201, body |-> ItemResponse(item)])

\* crud.py lines 37-42: SELECT ... WHERE id = :item_id, scalar_one_or_none
get_item_by_id(rows, item_id) ==
    scalar_one_or_none({r \in rows : ToString(r.id) = item_id})

\* main.py lines 73-79: GET /items/{item_id}
get_item(item_id) ==
    LET item == get_item_by_id(items, item_id)
    IN /\ HandleItem
       /\ UNCHANGED items
       /\ item_result' =
             ItemResult("get_item_by_id", item_id, item,
                        IF item = None THEN HTTPException(404, "Item not found")
                        ELSE Ok(ItemResponse(item)))

\* mutant: item_data.dict(exclude_none=True)
exclude_none(item_data, field) == item_data[field] \notin {Unset, None}

\* crud.py line 74: item_data.dict(exclude_unset=True) has the fields the
\* request set, those set to None included
exclude_unset(item_data, field) == item_data[field] # Unset

\* crud.py lines 76-77: setattr(item, field, value) for the fields of the dict
SetAttrs(item, item_data) ==
    [f \in DOMAIN item |->
        IF f \in ItemFields /\ exclude_unset(item_data, f) THEN item_data[f] ELSE item[f]]

\* the UPDATE breaks a NOT NULL constraint
NotNullViolation(row) == \E f \in NotNullColumns : row[f] = None

\* crud.py lines 64-84 and main.py lines 81-91: PUT /items/{item_id}. The
\* commit emits an UPDATE only when an attribute differs from the loaded
\* value; the UPDATE sets updated_at (onupdate) and raises IntegrityError
\* when it breaks a constraint, which the framework answers with 500
update_existing_item(item_id, item_data) ==
    LET item == get_item_by_id(items, item_id)
        dirty == SetAttrs(item, item_data)
        updated == [dirty EXCEPT !.updated_at = Some(nitemcalls')]
    IN /\ HandleItem
       /\ IF item = None
          THEN /\ UNCHANGED items
               /\ item_result' = ItemResult("update_item", item_id, None,
                                            HTTPException(404, "Item not found"))
          ELSE IF dirty = item
          THEN /\ UNCHANGED items
               /\ item_result' = ItemResult("update_item", item_id, item,
                                            Ok(ItemResponse(item)))
          ELSE IF NotNullViolation(dirty)
          THEN /\ UNCHANGED items
               /\ item_result' = ItemResult("update_item", item_id,
                                            Raised("IntegrityError"),
                                            HTTPException(500, "Internal Server Error"))
          ELSE /\ items' = (items \ {item}) \cup {updated}
               /\ item_result' = ItemResult("update_item", item_id, updated,
                                            Ok(ItemResponse(updated)))

\* mutant: DELETE FROM items without the WHERE clause
DeleteEveryItem(rows, item) == {}

\* crud.py lines 95-96: db.delete(item) and the commit
Delete(rows, item) == rows \ {item}

\* crud.py lines 90-100 and main.py lines 93-99: DELETE /items/{item_id}
delete_existing_item(item_id) ==
    LET item == get_item_by_id(items, item_id)
    IN /\ HandleItem
       /\ IF item = None
          THEN /\ UNCHANGED items
               /\ item_result' = ItemResult("delete_item", item_id, FALSE,
                                            HTTPException(404, "Item not found"))
          ELSE /\ items' = Delete(items, item)
               /\ item_result' = ItemResult("delete_item", item_id, TRUE,
                                            Ok([message |-> "Item deleted successfully"]))

NextItems ==
    \/ \E item_data \in ItemCreates : create_new_item(item_data)
    \/ \E item_id \in ItemIds : get_item(item_id)
    \/ \E item_id \in ItemIds, item_data \in ItemUpdates :
          update_existing_item(item_id, item_data)
    \/ \E item_id \in ItemIds : delete_existing_item(item_id)

SpecItems == Started({}, MaxCalls) /\ [][NextItems]_vars

----------------------------------------------------------------------------
(* Properties *)

HasAccount(u) == \E r \in bank_accounts : r.user_id = u

\* the persisted balance of the account of u
BalanceOf(u) == get_account_by_user_id(bank_accounts, u).balance

Call(op, u, m) == [op |-> op, user_id |-> u, amount |-> m]

AllIdle == \A s \in Sessions : pc[s] = "idle"

\* request s takes a step of a debit_account(u, m) call
DebitStep(s, u, m) ==
    \/ debit_account(s, u, m)
    \/ req[s] = Call("debit_account", u, m)
         /\ (debit_account_commit(s) \/ debit_account_refresh(s))

\* request s takes a step of a credit_account(u, m) call
CreditStep(s, u, m) ==
    \/ credit_account(s, u, m)
    \/ req[s] = Call("credit_account", u, m)
         /\ (credit_account_commit(s) \/ credit_account_refresh(s))

(* C1: when the only two calls made are debits of 60.00 against an active
   account that started with 100.00, exactly one of them returns success, the other
   returns the insufficient-balance failure, and the balance ends at 40.00. *)
C1_OneOfTwoDebitsSucceeds ==
    \A u \in Users :
        (/\ AllIdle
         /\ ncalls = 2
         /\ HasAccount(u)
         /\ get_account_by_user_id(bank_accounts, u).is_active
         /\ opening[u] = 10000
         /\ \A s \in Sessions : req[s] = Call("debit_account", u, 6000))
        => /\ \E s \in Sessions :
                /\ result[s].ok
                /\ \A t \in Sessions \ {s} :
                      result[t] = [ok |-> FALSE,
                                   message |-> InsufficientMessage(4000, 6000),
                                   balance |-> 4000]
           /\ BalanceOf(u) = 4000

(* C2: with calls served one at a time, no step of a debit or credit call
   with a positive amount takes a non-negative balance below zero, and a
   debit of more than the balance returns failure at once and changes no row. *)
C2_NonNegativeBalance ==
    [][\A s \in Sessions, u \in Users, m \in Amounts :
          (m > 0 /\ HasAccount(u)) =>
             /\ ((DebitStep(s, u, m) \/ CreditStep(s, u, m)) /\ BalanceOf(u) >= 0)
                    => BalanceOf(u)' >= 0
             /\ (debit_account(s, u, m) /\ m > BalanceOf(u))
                    => /\ pc'[s] = "idle"
                       /\ ~result'[s].ok
                       /\ bank_accounts' = bank_accounts]_vars

\* C2 witness: a debit of a positive amount was rejected for insufficient balance
C2_Witness ==
    \E s \in Sessions, u \in Users :
        /\ pc[s] = "idle"
        /\ req[s] = Call("debit_account", u, 6000)
        /\ HasAccount(u)
        /\ BalanceOf(u) >= 0
        /\ BalanceOf(u) < 6000
        /\ result[s] = [ok |-> FALSE,
                        message |-> InsufficientMessage(BalanceOf(u), 6000),
                        balance |-> BalanceOf(u)]

\* every call made so far is the one call of its session, with a positive amount
OnlyPositiveCalls ==
    /\ ncalls = Cardinality({s \in Sessions : req[s] # None})
    /\ \A s \in Sessions : req[s] # None => req[s].amount > 0

(* C3: whenever no call is in progress and the calls made were debits and
   credits of positive amounts, the balance of every account equals the
   balance it started with, minus the amounts of the debits that returned
   success, plus the amounts of the credits that returned success. *)
C3_NoLostUpdate ==
    (AllIdle /\ OnlyPositiveCalls)
        => \A u \in Users : HasAccount(u) => BalanceOf(u) = ledger[u]

(* C4: with calls served one at a time, debit_account(u, m) goes on to its
   write exactly when the account exists, is active and balance >= m, and
   otherwise returns failure with no row changed; its commit leaves the
   persisted balance at the previous balance minus m; and it then returns
   (true, "Transaction successful", persisted balance). *)
C4_DebitContract ==
    [][\A s \in Sessions, u \in Users, m \in Amounts :
          /\ debit_account(s, u, m) =>
                IF /\ HasAccount(u)
                   /\ get_account_by_user_id(bank_accounts, u).is_active
                   /\ BalanceOf(u) >= m
                THEN pc'[s] = "debit_commit"
                ELSE /\ pc'[s] = "idle"
                     /\ ~result'[s].ok
                     /\ bank_accounts' = bank_accounts
          /\ (req[s] = Call("debit_account", u, m) /\ debit_account_commit(s))
                => /\ BalanceOf(u)' = BalanceOf(u) - m
                   /\ pc'[s] = "debit_refresh"
          /\ (req[s] = Call("debit_account", u, m) /\ debit_account_refresh(s))
                => /\ result'[s] = [ok |-> TRUE, message |-> "Transaction successful",
                                    balance |-> BalanceOf(u)]
                   /\ bank_accounts' = bank_accounts]_vars

\* C4 witness: a debit of exactly the balance has returned success and left 0
C4_Witness ==
    \E s \in Sessions, u \in Users :
        /\ pc[s] = "idle"
        /\ req[s] = Call("debit_account", u, 6000)
        /\ HasAccount(u)
        /\ ledger[u] = opening[u] - 6000
        /\ result[s] = [ok |-> TRUE, message |-> "Transaction successful", balance |-> 0]
        /\ BalanceOf(u) = 0

(* C5: a debit_account or credit_account call that fails returns at its first
   step the record (false, reason, 0) when the user has no account and
   (false, reason, persisted balance) otherwise, raises nothing, and changes
   neither the table nor the state of any request in progress. *)
C5_FailedCallChangesNothing ==
    [][\A s \in Sessions, u \in Users, m \in Amounts :
          ((debit_account(s, u, m) \/ credit_account(s, u, m)) /\ pc'[s] = "idle")
             => /\ DOMAIN result'[s] = {"ok", "message", "balance"}
                /\ ~result'[s].ok
                /\ result'[s].balance = IF HasAccount(u) THEN BalanceOf(u) ELSE 0
                /\ UNCHANGED <<bank_accounts, pc, account, committed_state, opening, ledger>>]_vars

\* C5 witness: a call on an existing account with a balance above 0 has failed
C5_Witness ==
    \E s \in Sessions, u \in Users :
        /\ pc[s] = "idle"
        /\ req[s] # None
        /\ req[s].op \in {"debit_account", "credit_account"}
        /\ req[s].user_id = u
        /\ HasAccount(u)
        /\ BalanceOf(u) > 0
        /\ result[s].ok = FALSE
        /\ result[s].balance = BalanceOf(u)

(* C6: with calls served one at a time, credit_account(u, m) on an existing
   active account goes on to its write whatever the balance, its commit
   leaves the persisted balance at the previous balance plus m, and it then
   returns (true, "Transaction successful", persisted balance); for a missing
   account it returns failure with balance 0 and for an inactive account
   failure with the persisted balance. *)
C6_CreditContract ==
    [][\A s \in Sessions, u \in Users, m \in Amounts :
          /\ credit_account(s, u, m) =>
                IF ~HasAccount(u)
                THEN /\ result'[s] = [ok |-> FALSE, message |-> "Account not found",
                                      balance |-> 0]
                     /\ bank_accounts' = bank_accounts
                ELSE IF ~get_account_by_user_id(bank_accounts, u).is_active
                THEN /\ result'[s] = [ok |-> FALSE, message |-> "Account is inactive",
                                      balance |-> BalanceOf(u)]
                     /\ bank_accounts' = bank_accounts
                ELSE pc'[s] = "credit_commit"
          /\ (req[s] = Call("credit_account", u, m) /\ credit_account_commit(s))
                => /\ BalanceOf(u)' = BalanceOf(u) + m
                   /\ pc'[s] = "credit_refresh"
          /\ (req[s] = Call("credit_account", u, m) /\ credit_account_refresh(s))
                => /\ result'[s] = [ok |-> TRUE, message |-> "Transaction successful",
                                    balance |-> BalanceOf(u)]
                   /\ bank_accounts' = bank_accounts]_vars

\* C6 witness: a credit larger than the balance it found has returned success
C6_Witness ==
    \E s \in Sessions, u \in Users :
        /\ pc[s] = "idle"
        /\ req[s] = Call("credit_account", u, 6000)
        /\ HasAccount(u)
        /\ result[s] = [ok |-> TRUE, message |-> "Transaction successful",
                        balance |-> BalanceOf(u)]
        /\ BalanceOf(u) - 6000 < 6000
        /\ BalanceOf(u) - 6000 >= 0

(* C7: every debit_account and credit_account call with a positive amount on
   an inactive account returns (false, "Account is inactive", balance) at
   once and changes no row, also when the amount exceeds the balance. *)
C7_InactiveBlocksMutation ==
    [][\A s \in Sessions, u \in Users, m \in Amounts :
          (/\ m > 0
           /\ HasAccount(u)
           /\ ~get_account_by_user_id(bank_accounts, u).is_active
           /\ (debit_account(s, u, m) \/ credit_account(s, u, m)))
             => /\ result'[s] = [ok |-> FALSE, message |-> "Account is inactive",
                                 balance |-> BalanceOf(u)]
                /\ pc'[s] = "idle"
                /\ bank_accounts' = bank_accounts]_vars

\* C7 witness: a debit above the balance of an inactive account was refused as inactive
C7_Witness ==
    \E s \in Sessions, u \in Users :
        /\ pc[s] = "idle"
        /\ req[s] = Call("debit_account", u, 6000)
        /\ HasAccount(u)
        /\ ~get_account_by_user_id(bank_accounts, u).is_active
        /\ BalanceOf(u) < 6000
        /\ result[s].message = "Account is inactive"

(* C8: check_balance(u, m) returns (false, "Account not found") when u has no
   account; else (false, "Account is inactive") when the account is inactive,
   whatever its balance; else a failure that is neither of these when
   balance < m; else (true, "Sufficient balance"), also when balance = m. *)
C8_CheckBalanceOrder ==
    [][\A s \in Sessions, u \in Users, m \in Amounts :
          check_balance(s, u, m) =>
             /\ pc'[s] = "idle"
             /\ IF ~HasAccount(u)
                THEN result'[s] = [ok |-> FALSE, message |-> "Account not found"]
                ELSE IF ~get_account_by_user_id(bank_accounts, u).is_active
                THEN result'[s] = [ok |-> FALSE, message |-> "Account is inactive"]
                ELSE IF BalanceOf(u) < m
                THEN /\ ~result'[s].ok
                     /\ result'[s].message \notin
                           {"Account not found", "Account is inactive", "Sufficient balance"}
                ELSE result'[s] = [ok |-> TRUE, message |-> "Sufficient balance"]]_vars

\* C8 witness: check_balance on an inactive account with too small a balance
\* has answered that the account is inactive
C8_Witness ==
    \E s \in Sessions, u \in Users :
        /\ pc[s] = "idle"
        /\ req[s] = Call("check_balance", u, 6000)
        /\ HasAccount(u)
        /\ ~get_account_by_user_id(bank_accounts, u).is_active
        /\ BalanceOf(u) < 6000
        /\ result[s] = [ok |-> FALSE, message |-> "Account is inactive"]

\* the account exists, is active and holds less than m
Insufficient(u, m) ==
    /\ HasAccount(u)
    /\ get_account_by_user_id(bank_accounts, u).is_active
    /\ BalanceOf(u) < m

(* C9 as claimed: when the account exists, is active and balance < m,
   check_balance returns false with the reason
   "Insufficient balance: available=<balance>, required=<m>". *)
C9_MessageAsClaimed ==
    [][\A s \in Sessions, u \in Users, m \in Amounts :
          (check_balance(s, u, m) /\ Insufficient(u, m))
             => result'[s] = [ok |-> FALSE,
                              message |-> "Insufficient balance: available="
                                             \o FormatDecimal(BalanceOf(u))
                                             \o ", required=" \o FormatDecimal(m)]]_vars

(* C9 amended: when the account exists, is active and balance < m,
   check_balance returns false with the reason
   "Insufficient balance. Available: <balance>, Required: <m>". *)
C9_InsufficientMessage ==
    [][\A s \in Sessions, u \in Users, m \in Amounts :
          (check_balance(s, u, m) /\ Insufficient(u, m))
             => result'[s] = [ok |-> FALSE,
                              message |-> "Insufficient balance. Available: "
                                             \o FormatDecimal(BalanceOf(u))
                                             \o ", Required: " \o FormatDecimal(m)]]_vars

\* C9 witness: check_balance found 0.00 where 60.00 was required
C9_Witness ==
    \E s \in Sessions, u \in Users :
        /\ pc[s] = "idle"
        /\ req[s] = Call("check_balance", u, 6000)
        /\ Insufficient(u, 6000)
        /\ result[s].message = "Insufficient balance. Available: 0.00, Required: 60.00"

\* no two rows share a user_id or an account_number
OneAccountPerUser ==
    \A r1, r2 \in bank_accounts :
        (r1.user_id = r2.user_id \/ r1.account_number = r2.account_number) => r1 = r2

(* C10: in every reachable state, with create_account calls interleaved in
   any way, no two accounts share a user_id or an account_number; and a
   create_account call for a user who has an account raises the store's
   uniqueness error (IntegrityError, the Conflict of the error taxonomy) and
   leaves the table as it was. *)
C10_Uniqueness ==
    /\ []OneAccountPerUser
    /\ [][\A s \in Sessions, u \in Users :
             (/\ HasAccount(u)
              /\ pc[s] = "idle"
              /\ ncalls' = ncalls + 1
              /\ \E g \in Generated, body \in CreateBodies(u) :
                    create_account(s, BankAccountCreate(body), g[1], g[2]))
                => /\ result'[s] = [raised |-> "IntegrityError"]
                   /\ pc'[s] = "idle"
                   /\ bank_accounts' = bank_accounts]_vars

\* C10 witness: a create_account for a user who had an account was refused
\* while that account and another user's account exist
C10_Witness ==
    \E s \in Sessions, u \in Users :
        /\ pc[s] = "idle"
        /\ req[s] # None
        /\ req[s].op = "create_account"
        /\ req[s].user_id = u
        /\ HasAccount(u)
        /\ result[s] = [raised |-> "IntegrityError"]
        /\ Cardinality(bank_accounts) = 2

Success(balance) == [ok |-> TRUE, message |-> "Transaction successful", balance |-> balance]

(* C11: with calls served one at a time on the account u1 opened with the
   default 1000.00, every debit and credit answers from the balance left by
   the successful calls before it (ledger): a debit above that balance returns
   (false, the insufficient-balance message, that balance) and changes neither
   the table nor what later calls see, any other call returns
   (true, "Transaction successful", that balance -/+ its amount).  In
   particular debit 300.00 on 1000.00 returns 700.00; debit 800.00 on 700.00
   returns (false, "Insufficient balance. Available: 700.00, Required:
   800.00", 700.00); credit 50.00 on 700.00 returns 750.00. *)
C11_Scenario ==
    [][\A s \in Sessions :
          /\ \A m \in ScenarioAmounts :
               (HasAccount("u1") /\ debit_account(s, "u1", m)) =>
                  IF m > ledger["u1"]
                  THEN /\ pc'[s] = "idle"
                       /\ result'[s] = [ok |-> FALSE,
                                        message |-> InsufficientMessage(ledger["u1"], m),
                                        balance |-> ledger["u1"]]
                       /\ bank_accounts' = bank_accounts
                       /\ ledger' = ledger
                       /\ (ledger["u1"] = 70000 /\ m = 80000) =>
                             result'[s].message =
                               "Insufficient balance. Available: 700.00, Required: 800.00"
                  ELSE pc'[s] = "debit_commit"
          /\ (pc[s] = "debit_refresh" /\ debit_account_refresh(s)) =>
                /\ result'[s] = Success(ledger["u1"] - req[s].amount)
                /\ (ledger["u1"] = 100000 /\ req[s].amount = 30000) =>
                      result'[s] = Success(70000)
          /\ (pc[s] = "credit_refresh" /\ credit_account_refresh(s)) =>
                /\ result'[s] = Success(ledger["u1"] + req[s].amount)
                /\ (ledger["u1"] = 70000 /\ req[s].amount = 5000) =>
                      result'[s] = Success(75000)]_vars

\* C11 witness: the four calls of the scenario were made; the rejected debit of
\* 800.00 answered from 700.00 and the credit of 50.00 after it returned 750.00
C11_Witness ==
    \E s, t \in Sessions :
        /\ AllIdle
        /\ ncalls = 4
        /\ opening["u1"] = 100000
        /\ req[s] = Call("debit_account", "u1", 80000)
        /\ result[s] = [ok |-> FALSE,
                        message |-> "Insufficient balance. Available: 700.00, Required: 800.00",
                        balance |-> 70000]
        /\ req[t] = Call("credit_account", "u1", 5000)
        /\ result[t] = Success(75000)
        /\ HasAccount("u1")
        /\ BalanceOf("u1") = 75000

\* request s makes a get_account or check_balance call
ReadStep(s) ==
    \/ \E u \in Users : get_account(s, u)
    \/ \E u \in Users, m \in Amounts : check_balance(s, u, m)

(* C12: a get_account or check_balance call changes no row of the table and
   nothing of any other request, whatever is in flight; and when it comes
   second, right after a call with the same operation and arguments (nothing
   else has been called), it returns what that call returned. *)
C12_ReadOnly ==
    [][\A s \in Sessions :
          (pc[s] = "idle" /\ ncalls' = ncalls + 1 /\ ReadStep(s)) =>
             /\ bank_accounts' = bank_accounts
             /\ \A t \in Sessions \ {s} :
                   /\ pc'[t] = pc[t]
                   /\ req'[t] = req[t]
                   /\ account'[t] = account[t]
                   /\ result'[t] = result[t]
             /\ \A t \in Sessions :
                   (ncalls = 1 /\ pc[t] = "idle" /\ req[t] = req'[s])
                      => result'[s] = result[t]]_vars

\* C12 witness: the only two calls made are check_balance(u1, 60.00), one per
\* session, on an account that holds less; both returned the same refusal
C12_Witness ==
    /\ AllIdle
    /\ ncalls = 2
    /\ HasAccount("u1")
    /\ BalanceOf("u1") < 6000
    /\ \A s \in Sessions :
          /\ req[s] = Call("check_balance", "u1", 6000)
          /\ result[s] = [ok |-> FALSE, message |-> InsufficientMessage(BalanceOf("u1"), 6000)]

\* the value of field of a create request body, or default when the body leaves it out
Given(body, field, default) == IF field \in DOMAIN body THEN body[field] ELSE default

(* C13: a create_account call whose keys clash with no stored row succeeds,
   also with a negative initial_balance; a create_account call that succeeds
   adds exactly one row to the table, which carries the user_id of the
   request, balance = the initial_balance given (1000.00 when the body leaves
   it out), currency = the currency given ("USD" when left out) and
   is_active = true; and the call returns that row. *)
C13_CreatePersists ==
    [][\A s \in Sessions :
          /\ (pc[s] = "idle" /\ ncalls' = ncalls + 1) =>
                \A u \in Users, g \in Generated : \A body \in CreateBodies(u) :
                   create_account(s, BankAccountCreate(body), g[1], g[2]) =>
                      /\ (\A r \in bank_accounts :
                             r.user_id # u /\ r.id # g[1] /\ r.account_number # g[2])
                            => pc'[s] = "create_refresh"
                      /\ pc'[s] = "create_refresh" =>
                            \E row \in bank_accounts' \ bank_accounts :
                               /\ bank_accounts' = bank_accounts \cup {row}
                               /\ row.user_id = u
                               /\ row.id = g[1]
                               /\ row.account_number = g[2]
                               /\ row.balance = Given(body, "initial_balance", 100000)
                               /\ row.currency = Given(body, "currency", "USD")
                               /\ row.is_active
          /\ (pc[s] = "create_refresh" /\ create_account_refresh(s)) =>
                /\ IsRow(result'[s].account)
                /\ result'[s].account \in bank_accounts
                /\ result'[s].account.user_id = req[s].user_id
                /\ bank_accounts' = bank_accounts]_vars

\* C13 witness: two creations have returned their rows: one from a body with
\* only user_id (1000.00 USD), one with initial_balance -30.00 and currency EUR
C13_Witness ==
    /\ AllIdle
    /\ Cardinality(bank_accounts) = 2
    /\ \E s, t \in Sessions :
          /\ req[s] # None /\ req[s].op = "create_account"
          /\ req[t] # None /\ req[t].op = "create_account"
          /\ result[s] \in {[account |-> r] : r \in bank_accounts}
          /\ result[t] \in {[account |-> r] : r \in bank_accounts}
          /\ result[s].account.balance = 100000
          /\ result[s].account.currency = "USD"
          /\ result[s].account.is_active
          /\ result[t].account.balance = -3000
          /\ result[t].account.currency = "EUR"
          /\ result[t].account.is_active

Abs(n) == IF n < 0 THEN -n ELSE n

(* C14: with calls served one at a time, credit_account(u, m) with m < 0 on
   an existing active account is not refused, whatever the balance: its
   commit lowers the persisted balance by |m|, with no floor, and it returns
   (true, "Transaction successful", the lowered balance). *)
C14_NegativeCredit ==
    [][\A s \in Sessions, u \in Users, m \in {a \in Amounts : a < 0} :
          /\ (/\ HasAccount(u)
              /\ get_account_by_user_id(bank_accounts, u).is_active
              /\ credit_account(s, u, m))
                => pc'[s] = "credit_commit"
          /\ (req[s] = Call("credit_account", u, m) /\ credit_account_commit(s))
                => BalanceOf(u)' = BalanceOf(u) - Abs(m)
          /\ (req[s] = Call("credit_account", u, m) /\ credit_account_refresh(s))
                => /\ result'[s] = Success(BalanceOf(u))
                   /\ BalanceOf(u) = ledger[u] - Abs(m)]_vars

\* C14 witness: two credits of -30.00 on an account that held 0.00 have
\* returned success; the balance is -60.00
C14_Witness ==
    \E s \in Sessions :
        /\ AllIdle
        /\ opening["u1"] = 0
        /\ HasAccount("u1")
        /\ BalanceOf("u1") = -6000
        /\ req[s] = Call("credit_account", "u1", -3000)
        /\ result[s] = Success(-6000)

\* request s takes a step of a debit_account or credit_account call
TransactionStep(s) ==
    \/ \E u \in Users, m \in Amounts : debit_account(s, u, m) \/ credit_account(s, u, m)
    \/ debit_account_commit(s)
    \/ debit_account_refresh(s)
    \/ credit_account_commit(s)
    \/ credit_account_refresh(s)

\* what the call r returns, and the balance it leaves, when it is the only call
\* made on the account of its user
AloneOutcome(r) ==
    LET before == opening[r.user_id]
    IN IF r.op = "debit_account" /\ before < r.amount
       THEN [result |-> [ok |-> FALSE,
                         message |-> InsufficientMessage(before, r.amount),
                         balance |-> before],
             balance |-> before]
       ELSE LET after == IF r.op = "debit_account" THEN before - r.amount
                                                   ELSE before + r.amount
            IN [result |-> Success(after), balance |-> after]

(* C15: over a table with an active account per user and debit_account and
   credit_account calls interleaved in any way, every step of a call for user
   u keeps the rows of the table, leaves every row of another user as it is
   and changes at most balance and updated_at of the row of u; and once two
   calls for different users, the only calls made, have returned, each has
   returned what it returns when made alone and each account holds the
   balance that call alone leaves, which is what either order of the two
   gives. *)
C15_Isolation ==
    /\ [][\A s \in Sessions :
             TransactionStep(s) =>
                /\ Cardinality(bank_accounts') = Cardinality(bank_accounts)
                /\ \A r \in bank_accounts :
                      \E r2 \in bank_accounts' :
                         IF r.user_id = req'[s].user_id
                         THEN [r2 EXCEPT !.balance = r.balance,
                                         !.updated_at = r.updated_at] = r
                         ELSE r2 = r]_vars
    /\ [](\A s, t \in Sessions :
             (/\ AllIdle
              /\ ncalls = 2
              /\ req[s] # None
              /\ req[t] # None
              /\ req[s].user_id # req[t].user_id)
                => /\ result[s] = AloneOutcome(req[s]).result
                   /\ BalanceOf(req[s].user_id) = AloneOutcome(req[s]).balance)

\* C15 witness: a debit for u1 and a credit for u2 ran interleaved, both
\* loading their rows before either committed, and both have returned success
C15_Witness ==
    /\ AllIdle
    /\ ncalls = 2
    /\ req[1] = Call("debit_account", "u1", 6000)
    /\ req[2] = Call("credit_account", "u2", 6000)
    /\ result[1] = Success(opening["u1"] - 6000)
    /\ result[2] = Success(opening["u2"] + 6000)
    /\ \E r \in bank_accounts :
          r.user_id = "u1" /\ r.balance = opening["u1"] - 6000 /\ r.updated_at = 2
    /\ \E r \in bank_accounts :
          r.user_id = "u2" /\ r.balance = opening["u2"] + 6000 /\ r.updated_at = 2

(* C16: starting from an empty table, with the operations interleaved in any
   way, no step changes is_active of a row the table holds, and every row of
   every reachable state has is_active = true. *)
C16_AlwaysActive ==
    /\ [](\A r \in bank_accounts : r.is_active)
    /\ [][\A r \in bank_accounts :
             \E r2 \in bank_accounts' : r2.id = r.id /\ r2.is_active = r.is_active]_vars

\* C16 witness: an account opened with the default 1000.00 was debited by
\* 60.00 and is active
C16_Witness ==
    \E s \in Sessions, r \in bank_accounts :
        /\ AllIdle
        /\ req[s] = Call("debit_account", r.user_id, 6000)
        /\ result[s] = Success(94000)
        /\ r.balance = 94000
        /\ r.updated_at = 2
        /\ r.is_active

(* C17: with the operations interleaved in any way, every row of the table
   is still there after every step, with the same id, user_id and
   account_number, and is the row a lookup by its user_id finds; and
   get_account(u) for a user who has an account returns that row. *)
C17_NeverRemoved ==
    [][/\ \A r \in bank_accounts :
             \E r2 \in bank_accounts' :
                /\ r2.id = r.id
                /\ r2.user_id = r.user_id
                /\ r2.account_number = r.account_number
                /\ get_account_by_user_id(bank_accounts', r.user_id) = r2
       /\ \A s \in Sessions, u \in Users :
             (HasAccount(u) /\ get_account(s, u)) =>
                /\ result'[s].account \in bank_accounts
                /\ result'[s].account.user_id = u]_vars

\* C17 witness: after a debit that took the stored account of u1 from 100.00
\* to 40.00, get_account(u1) has returned the account with its id and number
C17_Witness ==
    \E s \in Sessions :
        /\ AllIdle
        /\ opening["u1"] = 10000
        /\ req[s] = Call("get_account", "u1", 0)
        /\ IsRow(result[s].account)
        /\ result[s].account.id = "id1"
        /\ result[s].account.account_number = "ACC1"
        /\ result[s].account.balance = 4000

\* request s takes the commit step of its debit_account or credit_account call
CommitStep(s) == debit_account_commit(s) \/ credit_account_commit(s)

\* the row of the table with this id
RowOf(rows, id) == CHOOSE r \in rows : r.id = id

\* every row keeps its created_at, and its updated_at too unless the step is
\* the commit of a successful debit_account or credit_account call
StampsKept ==
    \A r \in bank_accounts :
       \E r2 \in bank_accounts' :
          /\ r2.id = r.id
          /\ r2.created_at = r.created_at
          /\ (\A s \in Sessions : ~CommitStep(s)) => r2.updated_at = r.updated_at

(* C18 as claimed: with the operations interleaved in any way, the commit of
   every successful debit_account or credit_account call sets updated_at of
   its account to the time of the commit, which is not earlier than the value
   it replaces; every other step (failed calls, get_account, check_balance
   among them) leaves updated_at of every row as it is; no step changes
   created_at. *)
C18_RefreshedOnEverySuccess ==
    [][/\ StampsKept
       /\ \A s \in Sessions :
             CommitStep(s) =>
                /\ RowOf(bank_accounts', account[s].id).updated_at = utcnow
                /\ utcnow >= RowOf(bank_accounts, account[s].id).updated_at]_vars

(* C18 as amended: the commit of a successful debit_account or credit_account
   call with an amount other than zero sets updated_at of its account to the
   time of the commit, not earlier than the value it replaces, and leaves
   updated_at of every other row as it is; the commit of a successful call
   with amount zero writes nothing, updated_at included; every other step
   leaves updated_at of every row as it is; no step changes created_at. *)
C18_RefreshedOnChange ==
    [][/\ StampsKept
       /\ \A s \in Sessions :
             CommitStep(s) =>
                IF req[s].amount = 0
                THEN bank_accounts' = bank_accounts
                ELSE /\ RowOf(bank_accounts', account[s].id).updated_at = utcnow
                     /\ utcnow >= RowOf(bank_accounts, account[s].id).updated_at
                     /\ \A r \in bank_accounts :
                           r.id # account[s].id => r \in bank_accounts']_vars

\* C18 witness: on the stored account of u1 a credit of 0.00 and then a debit
\* of 60.00 have returned success; updated_at is the time of the second call
C18_Witness ==
    \E s, t \in Sessions, r \in bank_accounts :
        /\ AllIdle
        /\ req[s] = Call("credit_account", "u1", 0)
        /\ result[s] = Success(opening["u1"])
        /\ req[t] = Call("debit_account", "u1", 6000)
        /\ result[t] = Success(opening["u1"] - 6000)
        /\ r.user_id = "u1"
        /\ r.created_at = 0
        /\ r.updated_at = 2

\* the attempts made so far, but for the last one, have failed
EarlierAttemptsFailed == \A i \in 1..(Len(attempts) - 1) : attempts[i] \in Errors

\* what holds at every point of a call wait_for_db(max_retries, delay)
RetryBounded ==
    /\ Len(attempts) <= max_retries
    /\ EarlierAttemptsFailed
    /\ \A i \in 1..Len(sleeps) : sleeps[i] = delay
    /\ db_pc = "connect" =>
          /\ Len(attempts) = attempt
          /\ Len(sleeps) = Len(attempts)
          /\ \A i \in 1..Len(attempts) : attempts[i] \in Errors
    /\ db_pc = "sleep" =>
          /\ Len(attempts) < max_retries
          /\ attempts[Len(attempts)] \in Errors
          /\ Len(sleeps) = Len(attempts) - 1
    /\ db_pc = "returned" =>
          /\ Len(attempts) >= 1
          /\ attempts[Len(attempts)] = "ok"
          /\ Len(sleeps) = Len(attempts) - 1
    /\ db_pc = "raised" =>
          /\ Len(attempts) = max_retries
          /\ Len(sleeps) = max_retries - 1
          /\ attempts[max_retries] \in Errors
          /\ raised = attempts[max_retries]

(* C19: a call wait_for_db(max_retries, delay) with max_retries >= 1 ends,
   returning or raising; at every point it has made at most max_retries
   attempts, all failed but possibly the last; every sleep lasted delay and
   there is one sleep after every failed attempt that is followed by another
   attempt, none after the last; it has returned only right after a
   successful attempt; it has raised only after max_retries failed attempts
   and max_retries - 1 sleeps, and what it raised is the error of the last
   attempt. *)
C19_BoundedRetry ==
    /\ []((db_pc # "idle" /\ max_retries >= 1) => RetryBounded)
    /\ (db_pc # "idle") ~> (db_pc \in {"returned", "raised"})

\* C19 witness: wait_for_db(3, 2) has raised TimeoutError, the error of its
\* third attempt, the first two having failed otherwise, after two sleeps of 2
C19_Witness ==
    /\ db_pc = "raised"
    /\ max_retries = 3
    /\ delay = 2
    /\ attempts = <<"ConnectionRefusedError", "ConnectionRefusedError", "TimeoutError">>
    /\ sleeps = <<2, 2>>
    /\ raised = "TimeoutError"

EmailTaken(email) == \E r \in users : r.email = email

\* the step has added exactly one user, with the email and role of user_data
\* and its password stored hashed
OneUserCreated(user_data) ==
    \E row \in users' \ users :
       /\ users' = users \cup {row}
       /\ row.email = user_data.email
       /\ row.role = user_data.role
       /\ row.hashed_password = hash_password(user_data.password)
       /\ response'.body = UserResponse(row)

(* C20: with requests handled one at a time, a register request, or an
   admin_create_user request of an admin, whose email is the email of a user
   of the table is answered 400 "Email already registered" and leaves the
   table as it is; with any other email it adds exactly one user, of that
   email, and register answers 201; and in every reachable state no two
   users have the same email. *)
C20_UniqueEmails ==
    /\ [](\A r1, r2 \in users : r1.email = r2.email => r1 = r2)
    /\ [][\A user_data \in UserCreates :
             /\ register(user_data) =>
                   IF EmailTaken(user_data.email)
                   THEN /\ response' = HTTPException(400, "Email already registered")
                        /\ users' = users
                   ELSE /\ response'.status_code = 201
                        /\ OneUserCreated(user_data)
             /\ admin_create_user("admin", user_data) =>
                   IF EmailTaken(user_data.email)
                   THEN /\ response' = HTTPException(400, "Email already registered")
                        /\ users' = users
                   ELSE OneUserCreated(user_data)]_vars

\* C20 witness: two users with different emails are registered and a third
\* request, with the email of one of them, was answered 400
C20_Witness ==
    /\ nrequests = 3
    /\ Cardinality(users) = 2
    /\ {r.email : r \in users} = Emails
    /\ response = HTTPException(400, "Email already registered")

(* C24: with calls served one at a time, on an existing active account with
   balance >= 0, debit_account(u, m) with m <= 0 is not refused; with m < 0
   its commit raises the persisted balance by |m| and it returns
   (true, "Transaction successful", the raised balance); with m = 0 its
   commit leaves the table as it is and it returns success with the balance
   the account had. *)
C24_NonPositiveDebit ==
    [][\A s \in Sessions, u \in Users, m \in {a \in Amounts : a <= 0} :
          /\ (/\ HasAccount(u)
              /\ get_account_by_user_id(bank_accounts, u).is_active
              /\ BalanceOf(u) >= 0
              /\ debit_account(s, u, m))
                => pc'[s] = "debit_commit"
          /\ (req[s] = Call("debit_account", u, m) /\ debit_account_commit(s))
                => /\ BalanceOf(u)' = BalanceOf(u) + Abs(m)
                   /\ m = 0 => bank_accounts' = bank_accounts
          /\ (req[s] = Call("debit_account", u, m) /\ debit_account_refresh(s))
                => /\ result'[s] = Success(BalanceOf(u))
                   /\ BalanceOf(u) = ledger[u] + Abs(m)]_vars

\* C24 witness: on the stored account of u1 holding 0.00 a debit of -30.00 and
\* then a debit of 0.00 have returned success; the balance is 30.00
C24_Witness ==
    \E s, t \in Sessions :
        /\ AllIdle
        /\ opening["u1"] = 0
        /\ HasAccount("u1")
        /\ BalanceOf("u1") = 3000
        /\ req[s] = Call("debit_account", "u1", -3000)
        /\ result[s] = Success(3000)
        /\ req[t] = Call("debit_account", "u1", 0)
        /\ result[t] = Success(3000)

(* C23: in a start-up, create_all runs only in a step taken after
   wait_for_db has returned, its last attempt a success; once wait_for_db has
   raised, the tables are not created and the service is not serving, now or
   later, and init_db ends raising the error of wait_for_db's last attempt,
   upon which the start-up fails; the service is serving only after init_db
   has returned with the tables created. *)
C23_OrderedStartup ==
    /\ [][(tables_created' /\ ~tables_created) =>
             /\ db_pc = "returned"
             /\ attempts[Len(attempts)] = "ok"]_vars
    /\ [](db_pc = "raised" =>
             /\ ~tables_created
             /\ service # "serving"
             /\ init_pc \in {"wait_for_db", "raised"}
             /\ raised = attempts[Len(attempts)])
    /\ [](service = "serving" => (tables_created /\ init_pc = "returned"))
    /\ (db_pc = "raised") ~> (init_pc = "raised" /\ service = "failed")

\* C23 witness: every attempt of wait_for_db() failed, init_db has raised that
\* error, no table was created and the start-up has failed
C23_Witness ==
    /\ db_pc = "raised"
    /\ Len(attempts) = DefaultMaxRetries
    /\ Len(sleeps) = DefaultMaxRetries - 1
    /\ init_pc = "raised"
    /\ raised = Unreachable
    /\ ~tables_created
    /\ service = "failed"

\* the account whose email and password are the ones given, if any
Validated(email, password) ==
    {r \in users : r.email = email /\ r.hashed_password = hash_password(password)}

(* C21: with requests handled one at a time, validate_credentials answers
   400 "Email and password required", without reading table users, when the
   email or the password is absent or empty; otherwise 401 "Invalid
   credentials" when no user has that email and password; otherwise 403
   "Account disabled" when that user is inactive; otherwise 200 with the
   user's id, email, full_name and role, and the only change of the table is
   that user's last_login, set to the time of the request; in the three
   refusals the table, every last_login included, stays as it is. *)
C21_ValidateCredentials ==
    [][\A credentials \in Credentials :
          validate_credentials(credentials) =>
             LET email == credentials.email
                 password == credentials.password
                 found == Validated(email, password)
             IN IF email \in {Absent, ""} \/ password \in {Absent, ""}
                THEN /\ response' = HTTPException(400, "Email and password required")
                     /\ ~accessed'
                     /\ users' = users
                ELSE IF found = {}
                THEN /\ response' = HTTPException(401, "Invalid credentials")
                     /\ users' = users
                ELSE IF \E r \in found : ~r.is_active
                THEN /\ response' = HTTPException(403, "Account disabled")
                     /\ users' = users
                ELSE \E r \in found :
                        /\ response' = Ok([id |-> r.id, email |-> r.email,
                                           full_name |-> r.full_name, role |-> r.role])
                        /\ users' = (users \ {r}) \cup
                                       {[r EXCEPT !.last_login = datetime(nrequests')]}
                        /\ users' # users]_vars

\* C21 witness: a user has logged in, which set last_login, and a later
\* login with a wrong password was answered 401 and left last_login as set
C21_Witness ==
    /\ nrequests = 3
    /\ response = HTTPException(401, "Invalid credentials")
    /\ accessed
    /\ \E r \in users : r.is_active /\ r.last_login = datetime(2)

\* a request of an admin endpoint with header X-User-Role h
AdminRequest(h) ==
    \/ list_users(h)
    \/ \E user_id \in UserIds : get_user(h, user_id) \/ admin_delete_user(h, user_id)
    \/ \E user_id \in UserIds, user_update \in UserUpdates :
          admin_update_user(h, user_id, user_update)
    \/ \E user_data \in UserCreates : admin_create_user(h, user_data)

\* a request of a /users/me endpoint with header X-User-Id x
MeRequest(x) ==
    \/ get_my_profile(x)
    \/ delete_my_account(x)
    \/ \E user_update \in UserUpdates : update_my_profile(x, user_update)

(* C22: with requests handled one at a time, a request of an admin endpoint
   (GET and POST /users, GET, PUT and DELETE /users/{user_id}) whose
   X-User-Role is not exactly "admin" is answered 403 "Admin access
   required", and a request of a /users/me endpoint (GET, PUT, DELETE) whose
   X-User-Id is absent or empty is answered 401 "Not authenticated"; neither
   reads table users nor changes it; with the header as required the request
   is not answered that way and goes on to table users. *)
C22_GatewayHeaders ==
    [][/\ \A h \in GatewayRoles \ {"admin"} :
            AdminRequest(h) =>
               /\ response' = HTTPException(403, "Admin access required")
               /\ ~accessed'
               /\ users' = users
       /\ (response'.status_code = 403 \/ ~accessed') => ~AdminRequest("admin")
       /\ \A x \in XUserIds \ UserIds :
            MeRequest(x) =>
               /\ response' = HTTPException(401, "Not authenticated")
               /\ ~accessed'
               /\ users' = users
       /\ (response'.status_code = 401 \/ ~accessed') =>
             \A x \in UserIds : ~MeRequest(x)]_vars

\* C22 witness: with two users in the table, a request without the admin
\* role was refused and the table was not read
C22_Witness ==
    /\ Cardinality(users) = 2
    /\ response = HTTPException(403, "Admin access required")
    /\ ~accessed
    /\ nrequests = 3

\* the item with the given id, before the step
ItemOf(item_id) == CHOOSE r \in items : ToString(r.id) = item_id

ItemExists(item_id) == \E r \in items : ToString(r.id) = item_id

\* the fields the request sets, and those among them it sets to null
FieldsSet(item_data) == {f \in ItemFields : item_data[f] # Unset}

\* the request sets a field to a value other than the one the item has
Changes(item, item_data) == \E f \in FieldsSet(item_data) : item_data[f] # item[f]

\* when no item has the id, update_item returns None, the endpoint answers
\* 404 "Item not found" and no item changes
UpdateOfMissing(item_id) ==
    /\ item_result'.returned = None
    /\ item_result'.response = HTTPException(404, "Item not found")
    /\ items' = items

(* C25 as stated: update_item writes exactly the fields the request sets,
   null included, and leaves every other field of the item, updated_at
   included, and every other item as they are. *)
C25_ExactlyTheFieldsSet ==
    [][\A item_id \in ItemIds, item_data \in ItemUpdates :
          update_existing_item(item_id, item_data) =>
             IF ~ItemExists(item_id) THEN UpdateOfMissing(item_id)
             ELSE LET item == ItemOf(item_id)
                  IN \E new \in items' :
                        /\ items' = (items \ {item}) \cup {new}
                        /\ \A f \in DOMAIN item :
                              new[f] = IF f \in FieldsSet(item_data)
                                       THEN item_data[f] ELSE item[f]]_vars

(* C25: with requests handled one at a time, update_item on an existing
   item whose request sets no non-nullable column (name, price, quantity,
   is_available) to null gives every field the request sets the value given
   (a null description is written as null), keeps every field it omits
   except updated_at, which becomes the time of the call exactly when some
   field set differs from the item's value, and leaves every other item as
   it is; a request that sets a non-nullable column to null makes the commit
   raise IntegrityError (500) and changes no item; when no item has the id
   it returns None (404 "Item not found") and changes no item. *)
C25_FieldsSetAndStamp ==
    [][\A item_id \in ItemIds, item_data \in ItemUpdates :
          update_existing_item(item_id, item_data) =>
             IF ~ItemExists(item_id) THEN UpdateOfMissing(item_id)
             ELSE LET item == ItemOf(item_id)
                  IN IF \E f \in NotNullColumns : item_data[f] = None
                     THEN /\ item_result'.returned = Raised("IntegrityError")
                          /\ item_result'.response.status_code = 500
                          /\ items' = items
                     ELSE \E new \in items' :
                            /\ items' = (items \ {item}) \cup {new}
                            /\ item_result'.returned = new
                            /\ item_result'.response = Ok(ItemResponse(new))
                            /\ new.id = item.id /\ new.created_at = item.created_at
                            /\ \A f \in ItemFields :
                                  new[f] = IF f \in FieldsSet(item_data)
                                           THEN item_data[f] ELSE item[f]
                            /\ new.updated_at = IF Changes(item, item_data)
                                                THEN Some(nitemcalls')
                                                ELSE item.updated_at]_vars

\* C25 witness: an item created with a description had it set to null by an
\* update, which stamped updated_at, and a later update setting name to null
\* was refused and left the item as it was
C25_Witness ==
    /\ nitemcalls = 3
    /\ item_result.op = "update_item"
    /\ item_result.returned = Raised("IntegrityError")
    /\ \E r \in items :
          /\ r.name = Some("ink") /\ r.description = None
          /\ r.created_at = Some(1) /\ r.updated_at = Some(2)

(* C26: with requests handled one at a time, delete_item returns True (200)
   exactly when an item has the given id, and then removes that item and no
   other; otherwise it returns False (404 "Item not found") and changes no
   item; after a delete the id has no item, so get_item_by_id returns None
   and a delete of it returns False; and no create, update or delete brings
   back an id that was issued before and has no item. *)
C26_DeleteExactlyOne ==
    [][/\ \A item_id \in ItemIds :
            /\ delete_existing_item(item_id) =>
                 /\ item_result'.returned = ItemExists(item_id)
                 /\ IF ItemExists(item_id)
                    THEN /\ items' = items \ {ItemOf(item_id)}
                         /\ Cardinality(items') = Cardinality(items) - 1
                         /\ item_result'.response =
                               Ok([message |-> "Item deleted successfully"])
                    ELSE /\ items' = items
                         /\ item_result'.response = HTTPException(404, "Item not found")
                 /\ ~ItemExists(item_id)'
                 /\ get_item_by_id(items', item_id) = None
            /\ (~ItemExists(item_id) /\ get_item(item_id)) => item_result'.returned = None
       /\ \A r \in items' : r.id <= nitemcalls => \E q \in items : q.id = r.id]_vars

\* C26 witness: the item created first was deleted, and a second delete of
\* its id returned False
C26_Witness ==
    /\ nitemcalls = 3
    /\ items = {}
    /\ item_result.op = "delete_item"
    /\ item_result.item_id = "1"
    /\ item_result.returned = FALSE
    /\ item_result.response = HTTPException(404, "Item not found")

====
